---- MODULE Spec2Model ----
(***************************************************************************)
(* Model of the type resolver (python/rpdk/typescript/resolver.py), of the *)
(* identifier sanitizer and the selection validator                        *)
(* (python/rpdk/typescript/utils.py) and of the docker settings            *)
(* (python/rpdk/typescript/codegen.py) of the CloudFormation CLI           *)
(* TypeScript plugin.                                                      *)
(*                                                                         *)
(* A ResolvedType is a record [container |-> tag, type |-> payload]; the   *)
(* payload of a PRIMITIVE or MODEL node is a string, the payload of every  *)
(* other node is a ResolvedType.  A Python exception is modelled as a      *)
(* result record whose exc field names the exception class.                *)
(***************************************************************************)
EXTENDS Naturals, Sequences, FiniteSets, TLC

VARIABLES call, arg, result, threads, instances

vars == <<call, arg, result, threads, instances>>

(***************************************************************************)
(* Bounds of the model.                                                    *)
(***************************************************************************)
MaxDepth == 3
MaxSuffix == 2
MaxConcurrentDepth == 2
MaxAnswerLen == 2
MaxValueLen == 2

(***************************************************************************)
(* rpdk.core.jsonutils.resolver: the UNDEFINED sentinel and ContainerType. *)
(***************************************************************************)
UNDEFINED == "undefined"

ContainerType ==
    [PRIMITIVE |-> "PRIMITIVE", MODEL |-> "MODEL", DICT |-> "DICT",
     LIST |-> "LIST", SET |-> "SET", MULTIPLE |-> "MULTIPLE"]

\* Container tags outside the enumeration (resolver_test.py uses "foo").
UnknownContainers == {"foo", "bar"}

\* A primitive tag that is no key of PRIMITIVE_TYPES.
UnknownPrimitive == "bogus"

(***************************************************************************)
(* resolver.py: the two tables.                                            *)
(***************************************************************************)
\* Mutation: the generator profile that maps integer to "number".
PRIMITIVE_TYPES_number_profile ==
    [k \in {"string", "integer", "boolean", "number", UNDEFINED} |->
        CASE k = "string" -> "string"
          [] k = "integer" -> "number"
          [] k = "boolean" -> "boolean"
          [] k = "number" -> "number"
          [] k = UNDEFINED -> "object"]

PRIMITIVE_TYPES ==
    [k \in {"string", "integer", "boolean", "number", UNDEFINED} |->
        CASE k = "string" -> "string"
          [] k = "integer" -> "integer"
          [] k = "boolean" -> "boolean"
          [] k = "number" -> "number"
          [] k = UNDEFINED -> "object"]

\* Mutation: the wrapper table keyed by the schema tag, not by the
\* translated name.
PRIMITIVE_WRAPPERS_keyed_by_tag ==
    [k \in {"string", "integer", "boolean", "number", UNDEFINED} |->
        CASE k = "string" -> "String"
          [] k = "integer" -> "Integer"
          [] k = "boolean" -> "Boolean"
          [] k = "number" -> "Number"
          [] k = UNDEFINED -> "Object"]

PRIMITIVE_WRAPPERS ==
    [k \in {"string", "integer", "boolean", "number", "object"} |->
        CASE k = "string" -> "String"
          [] k = "integer" -> "Integer"
          [] k = "boolean" -> "Boolean"
          [] k = "number" -> "Number"
          [] k = "object" -> "Object"]

(***************************************************************************)
(* Results: a returned value, or a raised exception with its argument.     *)
(***************************************************************************)
Return(v) == [exc |-> "none", value |-> v]

Raise(e, a) == [exc |-> e, value |-> a]

\* ValueError(f"Unknown container type {resolved_type.container}")
UnknownContainerError(rt) ==
    Raise("ValueError", "Unknown container type " \o rt.container)

\* Mutation: the lookup falls back to the generic object name on a miss.
LookupPrimitive_default_object(k) ==
    IF k \in DOMAIN PRIMITIVE_TYPES
    THEN Return(PRIMITIVE_TYPES[k])
    ELSE Return("object")

\* PRIMITIVE_TYPES[resolved_type.type]: a dict lookup, KeyError on a miss.
LookupPrimitive(k) ==
    IF k \in DOMAIN PRIMITIVE_TYPES
    THEN Return(PRIMITIVE_TYPES[k])
    ELSE Raise("KeyError", k)

(***************************************************************************)
(* resolver.py: translate_type.  The nested type is translated before the  *)
(* container tag is matched, so an exception of the nested call comes      *)
(* first.                                                                  *)
(***************************************************************************)
\* Mutation: the LIST and SET templates exchanged, the Map arguments too.
RECURSIVE translate_type_swapped(_)
translate_type_swapped(resolved_type) ==
    IF resolved_type.container = ContainerType.MODEL
    THEN Return(resolved_type.type)
    ELSE IF resolved_type.container = ContainerType.PRIMITIVE
    THEN LookupPrimitive(resolved_type.type)
    ELSE IF resolved_type.container = ContainerType.MULTIPLE
    THEN Return("object")
    ELSE LET item_type == translate_type_swapped(resolved_type.type) IN
         IF item_type.exc # "none"
         THEN item_type
         ELSE IF resolved_type.container = ContainerType.DICT
         THEN Return("Map<" \o item_type.value \o ", "
                            \o PRIMITIVE_TYPES["string"] \o ">")
         ELSE IF resolved_type.container = ContainerType.LIST
         THEN Return("Set<" \o item_type.value \o ">")
         ELSE IF resolved_type.container = ContainerType.SET
         THEN Return("Array<" \o item_type.value \o ">")
         ELSE UnknownContainerError(resolved_type)

RECURSIVE translate_type(_)
translate_type(resolved_type) ==
    IF resolved_type.container = ContainerType.MODEL
    THEN Return(resolved_type.type)
    ELSE IF resolved_type.container = ContainerType.PRIMITIVE
    THEN LookupPrimitive(resolved_type.type)
    ELSE IF resolved_type.container = ContainerType.MULTIPLE
    THEN Return("object")
    ELSE LET item_type == translate_type(resolved_type.type) IN
         IF item_type.exc # "none"
         THEN item_type
         ELSE IF resolved_type.container = ContainerType.DICT
         THEN LET key_type == PRIMITIVE_TYPES["string"] IN
              Return("Map<" \o key_type \o ", " \o item_type.value \o ">")
         ELSE IF resolved_type.container = ContainerType.LIST
         THEN Return("Array<" \o item_type.value \o ">")
         ELSE IF resolved_type.container = ContainerType.SET
         THEN Return("Set<" \o item_type.value \o ">")
         ELSE UnknownContainerError(resolved_type)

(***************************************************************************)
(* The input trees: every ResolvedType of at most MaxDepth enclosing       *)
(* nodes over the six container tags and two unknown tags.                 *)
(***************************************************************************)
PrimitiveTags == DOMAIN PRIMITIVE_TYPES \cup {UnknownPrimitive}

ModelNames == {"Foo", "string"}

NestingTags ==
    {ContainerType.DICT, ContainerType.LIST, ContainerType.SET,
     ContainerType.MULTIPLE} \cup UnknownContainers

ResolvedType(container, type) == [container |-> container, type |-> type]

Leaves ==
    {ResolvedType(ContainerType.PRIMITIVE, k) : k \in PrimitiveTags}
    \cup {ResolvedType(ContainerType.MODEL, x) : x \in ModelNames}

RECURSIVE TreesOfDepth(_)
TreesOfDepth(d) ==
    IF d = 0
    THEN Leaves
    ELSE {ResolvedType(c, t) : c \in NestingTags, t \in TreesOfDepth(d - 1)}

Trees == UNION {TreesOfDepth(d) : d \in 0..MaxDepth}

(***************************************************************************)
(* resolver.py: class InnerType.  self is the record of the fields that    *)
(* resolve_type reads and writes; resolve_type returns the updated self    *)
(* with the value returned or the exception raised.                        *)
(***************************************************************************)
\* Mutation: a MULTIPLE node is marked primitive and its payload resolved.
RECURSIVE resolve_type_multiple_recurses(_, _)
resolve_type_multiple_recurses(self, resolved_type) ==
    IF resolved_type.container = ContainerType.PRIMITIVE
    THEN [self |-> [self EXCEPT !.primitive = TRUE],
          ret |-> LookupPrimitive(resolved_type.type)]
    ELSE IF resolved_type.container = ContainerType.MULTIPLE
    THEN resolve_type_multiple_recurses(
             [self EXCEPT !.primitive = TRUE], resolved_type.type)
    ELSE IF resolved_type.container = ContainerType.MODEL
    THEN [self |-> self, ret |-> Return(resolved_type.type)]
    ELSE IF resolved_type.container = ContainerType.DICT
    THEN resolve_type_multiple_recurses(
             [self EXCEPT !.classes = Append(@, "Map")], resolved_type.type)
    ELSE IF resolved_type.container = ContainerType.LIST
    THEN resolve_type_multiple_recurses(
             [self EXCEPT !.classes = Append(@, "Array")], resolved_type.type)
    ELSE IF resolved_type.container = ContainerType.SET
    THEN resolve_type_multiple_recurses(
             [self EXCEPT !.classes = Append(@, "Set")], resolved_type.type)
    ELSE [self |-> self, ret |-> UnknownContainerError(resolved_type)]

\* Mutation: no raise in the last branch, an unknown tag falls through to
\* the recursive call.
RECURSIVE resolve_type_unknown_passthrough(_, _)
resolve_type_unknown_passthrough(self, resolved_type) ==
    IF resolved_type.container = ContainerType.PRIMITIVE
    THEN [self |-> [self EXCEPT !.primitive = TRUE],
          ret |-> LookupPrimitive(resolved_type.type)]
    ELSE IF resolved_type.container = ContainerType.MULTIPLE
    THEN [self |-> [self EXCEPT !.primitive = TRUE], ret |-> Return("object")]
    ELSE IF resolved_type.container = ContainerType.MODEL
    THEN [self |-> self, ret |-> Return(resolved_type.type)]
    ELSE IF resolved_type.container = ContainerType.DICT
    THEN resolve_type_unknown_passthrough(
             [self EXCEPT !.classes = Append(@, "Map")], resolved_type.type)
    ELSE IF resolved_type.container = ContainerType.LIST
    THEN resolve_type_unknown_passthrough(
             [self EXCEPT !.classes = Append(@, "Array")], resolved_type.type)
    ELSE IF resolved_type.container = ContainerType.SET
    THEN resolve_type_unknown_passthrough(
             [self EXCEPT !.classes = Append(@, "Set")], resolved_type.type)
    ELSE resolve_type_unknown_passthrough(self, resolved_type.type)

\* Mutation: each container class is put in front of the chain.
RECURSIVE resolve_type_prepend(_, _)
resolve_type_prepend(self, resolved_type) ==
    IF resolved_type.container = ContainerType.PRIMITIVE
    THEN [self |-> [self EXCEPT !.primitive = TRUE],
          ret |-> LookupPrimitive(resolved_type.type)]
    ELSE IF resolved_type.container = ContainerType.MULTIPLE
    THEN [self |-> [self EXCEPT !.primitive = TRUE], ret |-> Return("object")]
    ELSE IF resolved_type.container = ContainerType.MODEL
    THEN [self |-> self, ret |-> Return(resolved_type.type)]
    ELSE IF resolved_type.container = ContainerType.DICT
    THEN resolve_type_prepend(
             [self EXCEPT !.classes = <<"Map">> \o @], resolved_type.type)
    ELSE IF resolved_type.container = ContainerType.LIST
    THEN resolve_type_prepend(
             [self EXCEPT !.classes = <<"Array">> \o @], resolved_type.type)
    ELSE IF resolved_type.container = ContainerType.SET
    THEN resolve_type_prepend(
             [self EXCEPT !.classes = <<"Set">> \o @], resolved_type.type)
    ELSE [self |-> self, ret |-> UnknownContainerError(resolved_type)]

RECURSIVE resolve_type(_, _)
resolve_type(self, resolved_type) ==
    IF resolved_type.container = ContainerType.PRIMITIVE
    THEN [self |-> [self EXCEPT !.primitive = TRUE],
          ret |-> LookupPrimitive(resolved_type.type)]
    ELSE IF resolved_type.container = ContainerType.MULTIPLE
    THEN [self |-> [self EXCEPT !.primitive = TRUE], ret |-> Return("object")]
    ELSE IF resolved_type.container = ContainerType.MODEL
    THEN [self |-> self, ret |-> Return(resolved_type.type)]
    ELSE IF resolved_type.container = ContainerType.DICT
    THEN resolve_type([self EXCEPT !.classes = Append(@, "Map")],
                      resolved_type.type)
    ELSE IF resolved_type.container = ContainerType.LIST
    THEN resolve_type([self EXCEPT !.classes = Append(@, "Array")],
                      resolved_type.type)
    ELSE IF resolved_type.container = ContainerType.SET
    THEN resolve_type([self EXCEPT !.classes = Append(@, "Set")],
                      resolved_type.type)
    ELSE [self |-> self, ret |-> UnknownContainerError(resolved_type)]

\* Mutation: the wrapper table is consulted whether or not the scalar is
\* primitive.
InnerType_always_wraps(item_type) ==
    LET self0 == [primitive |-> FALSE, classes |-> <<>>]
        r == resolve_type(self0, item_type)
    IN  IF r.ret.exc # "none"
        THEN r.ret
        ELSE IF r.ret.value \in DOMAIN PRIMITIVE_WRAPPERS
        THEN Return([primitive |-> r.self.primitive,
                     classes |-> r.self.classes,
                     type |-> r.ret.value,
                     wrapper_type |-> PRIMITIVE_WRAPPERS[r.ret.value]])
        ELSE Raise("KeyError", r.ret.value)

\* InnerType.__init__: the object built, or the exception that leaves the
\* constructor (then no object is returned).
InnerType(item_type) ==
    LET self0 == [primitive |-> FALSE, classes |-> <<>>]
        r == resolve_type(self0, item_type)
    IN  IF r.ret.exc # "none"
        THEN r.ret
        ELSE IF r.self.primitive
        THEN IF r.ret.value \in DOMAIN PRIMITIVE_WRAPPERS
             THEN Return([primitive |-> r.self.primitive,
                          classes |-> r.self.classes,
                          type |-> r.ret.value,
                          wrapper_type |-> PRIMITIVE_WRAPPERS[r.ret.value]])
             ELSE Raise("KeyError", r.ret.value)
        ELSE Return([primitive |-> r.self.primitive,
                     classes |-> r.self.classes,
                     type |-> r.ret.value,
                     wrapper_type |-> r.ret.value])

get_inner_type(resolved_type) == InnerType(resolved_type)

(***************************************************************************)
(* resolver.py: contains_model.  It raises nothing: every tag other than   *)
(* LIST is compared with MODEL.                                            *)
(***************************************************************************)
\* Mutation: the recursion goes through SET and DICT as it does through LIST.
RECURSIVE contains_model_any_container(_)
contains_model_any_container(resolved_type) ==
    IF resolved_type.container \in
           {ContainerType.LIST, ContainerType.SET, ContainerType.DICT}
    THEN contains_model_any_container(resolved_type.type)
    ELSE Return(resolved_type.container = ContainerType.MODEL)

RECURSIVE contains_model(_)
contains_model(resolved_type) ==
    IF resolved_type.container = ContainerType.LIST
    THEN contains_model(resolved_type.type)
    ELSE Return(resolved_type.container = ContainerType.MODEL)

(***************************************************************************)
(* utils.py: LANGUAGE_KEYWORDS and safe_reserved.                          *)
(***************************************************************************)
LANGUAGE_KEYWORDS ==
    {"abstract", "any", "as", "async", "await", "bigint", "boolean",
     "break", "case", "catch", "class", "configurable", "const",
     "constructor", "continue", "debugger", "declare", "default", "delete",
     "do", "else", "enum", "enumerable", "export", "extends", "false",
     "finally", "for", "from", "function", "get", "if", "in", "implements",
     "import", "instanceof", "interface", "is", "let", "module",
     "namespace", "never", "new", "null", "number", "of", "package",
     "private", "protected", "public", "readonly", "require", "return",
     "set", "static", "string", "super", "switch", "symbol", "this",
     "throw", "true", "try", "type", "typeof", "undefined", "value", "var",
     "void", "while", "with", "writable", "yield"}

\* Mutation: the marker is appended to every token.
safe_reserved_always(token) == token \o "_"

\* Mutation: the membership test negated.
safe_reserved_inverted(token) ==
    IF token \notin LANGUAGE_KEYWORDS
    THEN token \o "_"
    ELSE token

safe_reserved(token) ==
    IF token \in LANGUAGE_KEYWORDS
    THEN token \o "_"
    ELSE token

(***************************************************************************)
(* The identifiers given to safe_reserved: every reserved word and a few   *)
(* other words, each followed by at most MaxSuffix underscores.            *)
(***************************************************************************)
OtherWords == {"", "foo", "Foo", "String", "nul", "nulls"}

RECURSIVE Underscores(_)
Underscores(n) == IF n = 0 THEN "" ELSE "_" \o Underscores(n - 1)

Tokens ==
    {w \o Underscores(n) : w \in LANGUAGE_KEYWORDS \cup OtherWords,
                           n \in 0..MaxSuffix}

(***************************************************************************)
(* utils.py: validate_codegen_model.  A value is the sequence of its       *)
(* characters.                                                             *)
(***************************************************************************)
\* re.match(r"^[1-2]$", value): a character of the class [1-2] at the
\* start, then "$", which matches at the end of the string and also just
\* before a newline that ends the string.
re_match(value) ==
    /\ Len(value) >= 1
    /\ value[1] \in {"1", "2"}
    /\ \/ Len(value) = 1
       \/ Len(value) = 2 /\ value[2] = "\n"

\* The default handed to validate_codegen_model (any object; the tests use
\* a sentinel).
DEFAULT == <<"DEFAULT">>

\* The validator that validate_codegen_model(default) returns, applied to
\* value.
validate_codegen_model(default, value) ==
    IF value = <<>>
    THEN Return(default)
    ELSE IF ~re_match(value)
    THEN Raise("WizardValidationError", "Invalid selection.")
    ELSE Return(value)

ValueChars == {"0", "1", "2", "3", "a", "\n"}

Values == UNION {[1..n -> ValueChars] : n \in 0..MaxValueLen}

(***************************************************************************)
(* codegen.py: validate_no and TypescriptLanguagePlugin._init_settings.    *)
(* A typed line is the sequence of its characters.  project.settings is a  *)
(* function from the keys present to their values.                         *)
(***************************************************************************)
\* str.lower() on one character: each of the 26 upper-case ASCII letters
\* becomes its lower-case letter, every other ASCII character stays as it
\* is.
UpperCaseLetters ==
    <<"A", "B", "C", "D", "E", "F", "G", "H", "I", "J", "K", "L", "M",
      "N", "O", "P", "Q", "R", "S", "T", "U", "V", "W", "X", "Y", "Z">>

LowerCaseLetters ==
    <<"a", "b", "c", "d", "e", "f", "g", "h", "i", "j", "k", "l", "m",
      "n", "o", "p", "q", "r", "s", "t", "u", "v", "w", "x", "y", "z">>

LowerChar(c) ==
    IF \E i \in 1..Len(UpperCaseLetters) : UpperCaseLetters[i] = c
    THEN LowerCaseLetters[CHOOSE i \in 1..Len(UpperCaseLetters) :
                              UpperCaseLetters[i] = c]
    ELSE c

lower(value) == [i \in 1..Len(value) |-> LowerChar(value[i])]

validate_no(value) == lower(value) \notin {<<"n">>, <<"n", "o">>}

\* rpdk.core.init.input_with_validation: the validator applied to the line
\* read (validate_no raises nothing, so the first line is the answer).
input_with_validation(validate_result) == validate_result

\* project.settings.get(key) is True
settings_get_is_True(settings, key) ==
    key \in DOMAIN settings /\ settings[key] = TRUE

\* TypescriptLanguagePlugin.__init__: self._protocol_version
protocol_version == "2.0.0"

\* Mutation: the no_docker branch tested first.
_init_settings_no_docker_first(settings, answer) ==
    LET docker ==
            IF settings_get_is_True(settings, "no_docker")
            THEN [use |-> FALSE, no |-> TRUE]
            ELSE IF settings_get_is_True(settings, "use_docker")
            THEN [use |-> TRUE, no |-> FALSE]
            ELSE LET use == input_with_validation(validate_no(answer))
                 IN  [use |-> use, no |-> ~use]
    IN  [k \in DOMAIN settings
               \cup {"use_docker", "no_docker", "protocolVersion"} |->
            CASE k = "use_docker" -> docker.use
              [] k = "no_docker" -> docker.no
              [] k = "protocolVersion" -> protocol_version
              [] OTHER -> settings[k]]

\* project.settings after _init_settings.
_init_settings(settings, answer) ==
    LET docker ==
            IF settings_get_is_True(settings, "use_docker")
            THEN [use |-> TRUE, no |-> FALSE]
            ELSE IF settings_get_is_True(settings, "no_docker")
            THEN [use |-> FALSE, no |-> TRUE]
            ELSE LET use == input_with_validation(validate_no(answer))
                 IN  [use |-> use, no |-> ~use]
    IN  [k \in DOMAIN settings
               \cup {"use_docker", "no_docker", "protocolVersion"} |->
            CASE k = "use_docker" -> docker.use
              [] k = "no_docker" -> docker.no
              [] k = "protocolVersion" -> protocol_version
              [] OTHER -> settings[k]]

\* The incoming settings: use_docker and no_docker each absent, True or
\* False.
SettingsIn ==
    UNION {[K -> BOOLEAN] : K \in SUBSET {"use_docker", "no_docker"}}

AnswerChars == {"n", "N", "o", "O", "y", "E"}

Answers == UNION {[1..n -> AnswerChars] : n \in 0..MaxAnswerLen}

(***************************************************************************)
(* Concurrent callers.  Each thread calls one entry point at a time.  The  *)
(* module tables and the trees are values no statement assigns to; the     *)
(* only objects written are the InnerType instances, one allocated by each *)
(* get_inner_type call (self.primitive, self.classes).  resolve_type runs  *)
(* one activation per step, so the calls of different threads interleave   *)
(* between any two activations.  translate_type, contains_model and        *)
(* safe_reserved work on locals only and are one step each.                *)
(***************************************************************************)
Threads == {1, 2}

ConcurrentLeaves ==
    {ResolvedType(ContainerType.PRIMITIVE, "string"),
     ResolvedType(ContainerType.PRIMITIVE, UnknownPrimitive),
     ResolvedType(ContainerType.MODEL, "Foo")}

ConcurrentTags ==
    {ContainerType.LIST, ContainerType.DICT, ContainerType.MULTIPLE, "foo"}

RECURSIVE ConcurrentTreesOfDepth(_)
ConcurrentTreesOfDepth(d) ==
    IF d = 0
    THEN ConcurrentLeaves
    ELSE {ResolvedType(c, t) :
              c \in ConcurrentTags, t \in ConcurrentTreesOfDepth(d - 1)}

ConcurrentTrees ==
    UNION {ConcurrentTreesOfDepth(d) : d \in 0..MaxConcurrentDepth}

ConcurrentTokens == {"foo", "null", "null_"}

NoNode == ResolvedType("none", "none")

IdleThread ==
    [pc |-> "idle", call |-> "none",
     arg |-> [kind |-> "none", value |-> "none"],
     resolved_type |-> NoNode, result |-> Return("none")]

\* InnerType.__init__, lines 21-22: the fields of a new instance.
NewInstance == [primitive |-> FALSE, classes |-> <<>>]

\* Mutation: one instance serves every call (state kept on the class or the
\* module instead of on a new object).
InstanceOf_shared(t) == 1

\* The instance that the call of thread t allocates: an object of its own.
InstanceOf(t) == t

\* One activation of resolve_type: the instance after it, and whether it
\* returns or raises (ret) or calls itself on the nested type (recurse).
resolve_type_activation(self, resolved_type) ==
    IF resolved_type.container = ContainerType.PRIMITIVE
    THEN [self |-> [self EXCEPT !.primitive = TRUE], recurse |-> FALSE,
          ret |-> LookupPrimitive(resolved_type.type)]
    ELSE IF resolved_type.container = ContainerType.MULTIPLE
    THEN [self |-> [self EXCEPT !.primitive = TRUE], recurse |-> FALSE,
          ret |-> Return("object")]
    ELSE IF resolved_type.container = ContainerType.MODEL
    THEN [self |-> self, recurse |-> FALSE, ret |-> Return(resolved_type.type)]
    ELSE IF resolved_type.container = ContainerType.DICT
    THEN [self |-> [self EXCEPT !.classes = Append(@, "Map")],
          recurse |-> TRUE, ret |-> Return("none")]
    ELSE IF resolved_type.container = ContainerType.LIST
    THEN [self |-> [self EXCEPT !.classes = Append(@, "Array")],
          recurse |-> TRUE, ret |-> Return("none")]
    ELSE IF resolved_type.container = ContainerType.SET
    THEN [self |-> [self EXCEPT !.classes = Append(@, "Set")],
          recurse |-> TRUE, ret |-> Return("none")]
    ELSE [self |-> self, recurse |-> FALSE,
          ret |-> UnknownContainerError(resolved_type)]

\* InnerType.__init__, lines 23-26, once resolve_type has returned type.
InnerType_finish(self, type) ==
    IF self.primitive
    THEN IF type \in DOMAIN PRIMITIVE_WRAPPERS
         THEN Return([primitive |-> self.primitive, classes |-> self.classes,
                      type |-> type,
                      wrapper_type |-> PRIMITIVE_WRAPPERS[type]])
         ELSE Raise("KeyError", type)
    ELSE Return([primitive |-> self.primitive, classes |-> self.classes,
                 type |-> type, wrapper_type |-> type])

ConcurrentInit ==
    /\ call = "none"
    /\ arg = [kind |-> "none", value |-> "none"]
    /\ result = Return("none")
    /\ threads = [t \in Threads |-> IdleThread]
    /\ instances = [t \in Threads |-> NewInstance]

\* A thread calls translate_type, contains_model or safe_reserved.
CallPure(t) ==
    /\ threads[t].pc = "idle"
    /\ \/ \E n \in ConcurrentTrees :
             \/ threads' = [threads EXCEPT ![t] =
                    [@ EXCEPT !.pc = "done", !.call = "translate_type",
                              !.arg = [kind |-> "ResolvedType", value |-> n],
                              !.result = translate_type(n)]]
             \/ threads' = [threads EXCEPT ![t] =
                    [@ EXCEPT !.pc = "done", !.call = "contains_model",
                              !.arg = [kind |-> "ResolvedType", value |-> n],
                              !.result = contains_model(n)]]
       \/ \E k \in ConcurrentTokens :
             threads' = [threads EXCEPT ![t] =
                 [@ EXCEPT !.pc = "done", !.call = "safe_reserved",
                           !.arg = [kind |-> "token", value |-> k],
                           !.result = Return(safe_reserved(k))]]
    /\ UNCHANGED <<call, arg, result, instances>>

\* A thread calls get_inner_type: InnerType.__init__ sets the fields of the
\* new instance and calls resolve_type on the argument.
CallGetInnerType(t) ==
    /\ threads[t].pc = "idle"
    /\ \E n \in ConcurrentTrees :
           threads' = [threads EXCEPT ![t] =
               [@ EXCEPT !.pc = "resolve_type", !.call = "get_inner_type",
                         !.arg = [kind |-> "ResolvedType", value |-> n],
                         !.resolved_type = n]]
    /\ instances' = [instances EXCEPT ![InstanceOf(t)] = NewInstance]
    /\ UNCHANGED <<call, arg, result>>

\* One activation of resolve_type in the call of thread t.
ResolveType(t) ==
    /\ threads[t].pc = "resolve_type"
    /\ LET a == resolve_type_activation(instances[InstanceOf(t)],
                                        threads[t].resolved_type)
       IN  /\ instances' = [instances EXCEPT ![InstanceOf(t)] = a.self]
           /\ threads' = [threads EXCEPT ![t] =
                  IF a.recurse
                  THEN [@ EXCEPT !.resolved_type = @.type]
                  ELSE IF a.ret.exc = "none"
                  THEN [@ EXCEPT !.pc = "wrapper_type", !.result = a.ret,
                                 !.resolved_type = NoNode]
                  ELSE [@ EXCEPT !.pc = "done", !.result = a.ret,
                                 !.resolved_type = NoNode]]
    /\ UNCHANGED <<call, arg, result>>

\* The rest of InnerType.__init__: type, wrapper_type, and the return of
\* the instance (or the KeyError of the wrapper table).
WrapperType(t) ==
    /\ threads[t].pc = "wrapper_type"
    /\ threads' = [threads EXCEPT ![t] =
           [@ EXCEPT !.pc = "done",
                     !.result = InnerType_finish(instances[InstanceOf(t)],
                                                 threads[t].result.value)]]
    /\ UNCHANGED <<call, arg, result, instances>>

\* The caller has used the result and drops it: the thread is free for its
\* next call, and the instance a get_inner_type call returned is garbage
\* (its fields are no longer observable; they are put back to the fields
\* of a new instance).
Finish(t) ==
    /\ threads[t].pc = "done"
    /\ threads' = [threads EXCEPT ![t] = IdleThread]
    /\ instances' = IF threads[t].call = "get_inner_type"
                    THEN [instances EXCEPT ![InstanceOf(t)] = NewInstance]
                    ELSE instances
    /\ UNCHANGED <<call, arg, result>>

ConcurrentNext ==
    \E t \in Threads :
        \/ CallPure(t)
        \/ CallGetInnerType(t)
        \/ ResolveType(t)
        \/ WrapperType(t)
        \/ Finish(t)

ConcurrentSpec == ConcurrentInit /\ [][ConcurrentNext]_vars

(***************************************************************************)
(* The state machine.  Init draws the argument of one call; each action is *)
(* one call of an entry point on that argument and records what the call   *)
(* returned or raised.                                                     *)
(***************************************************************************)
Init ==
    /\ call = "none"
    /\ result = Return("none")
    /\ \/ arg \in [kind : {"ResolvedType"}, value : Trees]
       \/ arg \in [kind : {"token"}, value : Tokens]
       \/ arg \in [kind : {"settings"},
                    value : [settings : SettingsIn, answer : Answers]]
       \/ arg \in [kind : {"selection"}, value : Values]
    /\ threads = [t \in Threads |-> IdleThread]
    /\ instances = [t \in Threads |-> NewInstance]

TranslateType ==
    /\ call = "none"
    /\ arg.kind = "ResolvedType"
    /\ call' = "translate_type"
    /\ result' = translate_type(arg.value)
    /\ UNCHANGED <<arg, threads, instances>>

GetInnerType ==
    /\ call = "none"
    /\ arg.kind = "ResolvedType"
    /\ call' = "get_inner_type"
    /\ result' = get_inner_type(arg.value)
    /\ UNCHANGED <<arg, threads, instances>>

ContainsModel ==
    /\ call = "none"
    /\ arg.kind = "ResolvedType"
    /\ call' = "contains_model"
    /\ result' = contains_model(arg.value)
    /\ UNCHANGED <<arg, threads, instances>>

SafeReserved ==
    /\ call = "none"
    /\ arg.kind = "token"
    /\ call' = "safe_reserved"
    /\ result' = Return(safe_reserved(arg.value))
    /\ UNCHANGED <<arg, threads, instances>>

InitSettings ==
    /\ call = "none"
    /\ arg.kind = "settings"
    /\ call' = "_init_settings"
    /\ result' = Return(_init_settings(arg.value.settings, arg.value.answer))
    /\ UNCHANGED <<arg, threads, instances>>

ValidateCodegenModel ==
    /\ call = "none"
    /\ arg.kind = "selection"
    /\ call' = "validate_codegen_model"
    /\ result' = validate_codegen_model(DEFAULT, arg.value)
    /\ UNCHANGED <<arg, threads, instances>>

Next ==
    \/ TranslateType
    \/ GetInnerType
    \/ ContainsModel
    \/ SafeReserved
    \/ InitSettings
    \/ ValidateCodegenModel

Spec == Init /\ [][Next]_vars

(***************************************************************************)
(* Vocabulary of the properties.                                           *)
(***************************************************************************)
Called(f) == call = f /\ arg.kind = "ResolvedType"

Node == arg.value

KnownTags ==
    {ContainerType.PRIMITIVE, ContainerType.MODEL, ContainerType.LIST,
     ContainerType.SET, ContainerType.DICT, ContainerType.MULTIPLE}

LeafTags == {ContainerType.PRIMITIVE, ContainerType.MODEL}

WrappingTags == {ContainerType.LIST, ContainerType.SET, ContainerType.DICT}

\* The container tags of a tree from the root down to its leaf.
RECURSIVE Spine(_)
Spine(t) ==
    IF t.container \in LeafTags
    THEN <<t.container>>
    ELSE <<t.container>> \o Spine(t.type)

\* The payload of the leaf of a tree.
RECURSIVE LeafPayload(_)
LeafPayload(t) ==
    IF t.container \in LeafTags THEN t.type ELSE LeafPayload(t.type)

\* The first node with an unknown tag that a recursion through the tags of
\* `through` reaches from the root is at position n of the spine.
ReachesUnknownAt(through, t, n) ==
    /\ n \in 1..Len(Spine(t))
    /\ Spine(t)[n] \notin KnownTags
    /\ \A i \in 1..(n - 1) : Spine(t)[i] \in through

ReachesUnknown(through, t) ==
    \E n \in 1..Len(Spine(t)) : ReachesUnknownAt(through, t, n)

(***************************************************************************)
(* C1.  Whenever translate_type succeeds on T with result S,               *)
(* translate_type(LIST(T)) is "Array<" + S + ">", translate_type(SET(T))   *)
(* is "Set<" + S + ">" and translate_type(DICT(T)) is                      *)
(* "Map<string, " + S + ">", at every nesting depth.                       *)
(***************************************************************************)
C1_ContainerWrapping ==
    (/\ Called("translate_type")
     /\ Node.container \in WrappingTags
     /\ translate_type(Node.type).exc = "none")
    => LET S == translate_type(Node.type).value IN
       /\ Node.container = ContainerType.LIST
              => result = Return("Array<" \o S \o ">")
       /\ Node.container = ContainerType.SET
              => result = Return("Set<" \o S \o ">")
       /\ Node.container = ContainerType.DICT
              => result = Return("Map<string, " \o S \o ">")

C1_Witness ==
    /\ Called("translate_type")
    /\ Node = ResolvedType(ContainerType.LIST,
                  ResolvedType(ContainerType.DICT,
                      ResolvedType(ContainerType.SET,
                          ResolvedType(ContainerType.MODEL, "Foo"))))
    /\ result = Return("Array<Map<string, Set<Foo>>>")

(***************************************************************************)
(* C2.  For every tag k of the primitive table, translate_type of          *)
(* PRIMITIVE(k) is the table's value for k (string, integer, boolean,      *)
(* number name themselves, UNDEFINED gives "object"), and get_inner_type   *)
(* of PRIMITIVE(k) has that value as type, primitive = true and an empty   *)
(* container chain.                                                        *)
(***************************************************************************)
C2_TableValue(k) ==
    CASE k = "string" -> "string"
      [] k = "integer" -> "integer"
      [] k = "boolean" -> "boolean"
      [] k = "number" -> "number"
      [] k = UNDEFINED -> "object"

C2_PrimitiveRoundTrip ==
    /\ DOMAIN PRIMITIVE_TYPES
           = {"string", "integer", "boolean", "number", UNDEFINED}
    /\ (/\ arg.kind = "ResolvedType"
        /\ Node.container = ContainerType.PRIMITIVE
        /\ Node.type \in DOMAIN PRIMITIVE_TYPES)
       => /\ call = "translate_type"
              => result = Return(C2_TableValue(Node.type))
          /\ call = "get_inner_type"
              => /\ result.exc = "none"
                 /\ result.value.type = C2_TableValue(Node.type)
                 /\ result.value.primitive = TRUE
                 /\ result.value.classes = <<>>

C2_Witness ==
    /\ Called("get_inner_type")
    /\ Node = ResolvedType(ContainerType.PRIMITIVE, UNDEFINED)
    /\ result.exc = "none"
    /\ result.value.type = "object"
    /\ result.value.primitive

(***************************************************************************)
(* C3.  contains_model is true exactly when the tree is a chain of zero or *)
(* more LIST nodes whose innermost payload is a MODEL node, and false for  *)
(* every other tree (a PRIMITIVE leaf, or a SET, DICT, MULTIPLE or other   *)
(* node anywhere above the MODEL).                                         *)
(***************************************************************************)
C3_ListChainOfModel(t) ==
    /\ Spine(t)[Len(Spine(t))] = ContainerType.MODEL
    /\ \A i \in 1..(Len(Spine(t)) - 1) : Spine(t)[i] = ContainerType.LIST

C3_ContainsModel ==
    Called("contains_model") => result = Return(C3_ListChainOfModel(Node))

C3_Witness ==
    /\ Called("contains_model")
    /\ Node = ResolvedType(ContainerType.LIST,
                  ResolvedType(ContainerType.LIST,
                      ResolvedType(ContainerType.MODEL, "Foo")))
    /\ result = Return(TRUE)

(***************************************************************************)
(* C4.  As claimed: a node whose tag is outside the closed set makes each  *)
(* of translate_type, get_inner_type and contains_model fail with the      *)
(* unknown-container error whenever the recursion of that entry point      *)
(* reaches the node.                                                       *)
(***************************************************************************)
C4_IsUnknownContainerError(r) ==
    /\ r.exc = "ValueError"
    /\ \E c \in UnknownContainers : r.value = "Unknown container type " \o c

C4_UnknownTagFailsEverywhere ==
    /\ (Called("translate_type") /\ ReachesUnknown(WrappingTags, Node))
           => C4_IsUnknownContainerError(result)
    /\ (Called("get_inner_type") /\ ReachesUnknown(WrappingTags, Node))
           => C4_IsUnknownContainerError(result)
    /\ (Called("contains_model") /\ ReachesUnknown({ContainerType.LIST}, Node))
           => C4_IsUnknownContainerError(result)

\* The positions of the spine that translate_type visits: those with no
\* MULTIPLE node above them.
C4_Visited(t) ==
    {n \in 1..Len(Spine(t)) :
        \A i \in 1..(n - 1) : Spine(t)[i] # ContainerType.MULTIPLE}

\* translate_type gets down to a PRIMITIVE leaf whose tag is not in the table.
C4_UnknownPrimitiveFirst(t) ==
    /\ Len(Spine(t)) \in C4_Visited(t)
    /\ Spine(t)[Len(Spine(t))] = ContainerType.PRIMITIVE
    /\ LeafPayload(t) \notin {"string", "integer", "boolean", "number", UNDEFINED}

\* The tag of the innermost visited node whose tag is unknown.
C4_InnermostUnknownTag(t) ==
    LET U == {n \in C4_Visited(t) : Spine(t)[n] \notin KnownTags}
    IN  Spine(t)[CHOOSE n \in U : \A m \in U : m <= n]

\* The tag of the outermost node whose tag is unknown.
C4_OutermostUnknownTag(t) ==
    LET U == {n \in 1..Len(Spine(t)) : Spine(t)[n] \notin KnownTags}
    IN  Spine(t)[CHOOSE n \in U : \A m \in U : n <= m]

(***************************************************************************)
(* C4, amended.  When its recursion (through LIST, SET and DICT) reaches a *)
(* node with an unknown tag, get_inner_type fails with the                 *)
(* unknown-container error naming that tag.  translate_type returns no     *)
(* normal result either, but it translates the payload before it matches   *)
(* the tag: it fails with the unknown-primitive error when it gets down to *)
(* a PRIMITIVE leaf with an unknown tag, and otherwise with the            *)
(* unknown-container error of the innermost unknown node it visits.        *)
(* contains_model never fails: it returns false when its recursion         *)
(* (through LIST) reaches such a node.                                     *)
(***************************************************************************)
C4_UnknownTagOutcome ==
    /\ (Called("get_inner_type") /\ ReachesUnknown(WrappingTags, Node))
           => result = Raise("ValueError", "Unknown container type "
                                 \o C4_OutermostUnknownTag(Node))
    /\ (Called("translate_type") /\ ReachesUnknown(WrappingTags, Node))
           => result = IF C4_UnknownPrimitiveFirst(Node)
                       THEN Raise("KeyError", LeafPayload(Node))
                       ELSE Raise("ValueError", "Unknown container type "
                                      \o C4_InnermostUnknownTag(Node))
    /\ (Called("contains_model") /\ ReachesUnknown({ContainerType.LIST}, Node))
           => result = Return(FALSE)

C4_Witness ==
    /\ Called("translate_type")
    /\ Node = ResolvedType(ContainerType.LIST,
                  ResolvedType("foo",
                      ResolvedType("bar",
                          ResolvedType(ContainerType.PRIMITIVE, "string"))))
    /\ result = Raise("ValueError", "Unknown container type bar")

(***************************************************************************)
(* C5.  A MULTIPLE node collapses to the generic object type whatever its  *)
(* payload (unknown container tags and unknown primitive tags included):   *)
(* translate_type returns "object"; get_inner_type returns type "object",  *)
(* primitive = true, wrapper_type "Object" and an empty container chain;   *)
(* neither raises.                                                         *)
(***************************************************************************)
C5_MultipleCollapses ==
    (arg.kind = "ResolvedType" /\ Node.container = ContainerType.MULTIPLE)
    => /\ call = "translate_type" => result = Return("object")
       /\ call = "get_inner_type"
              => result = Return([type |-> "object", primitive |-> TRUE,
                                  wrapper_type |-> "Object",
                                  classes |-> <<>>])

C5_Witness ==
    /\ Called("get_inner_type")
    /\ Node = ResolvedType(ContainerType.MULTIPLE,
                  ResolvedType("foo",
                      ResolvedType(ContainerType.LIST,
                          ResolvedType(ContainerType.PRIMITIVE, "bogus"))))
    /\ result.exc = "none"
    /\ result.value.wrapper_type = "Object"

(***************************************************************************)
(* C6.  For every model identifier x, translate_type(MODEL(x)) is x,       *)
(* contains_model(MODEL(x)) is true and get_inner_type(MODEL(x)) has       *)
(* type x, primitive = false, wrapper_type x and an empty container chain, *)
(* also when x is a primitive type name such as "string".                  *)
(***************************************************************************)
C6_ModelPassThrough ==
    (arg.kind = "ResolvedType" /\ Node.container = ContainerType.MODEL)
    => /\ call = "translate_type" => result = Return(Node.type)
       /\ call = "contains_model" => result = Return(TRUE)
       /\ call = "get_inner_type"
              => result = Return([type |-> Node.type, primitive |-> FALSE,
                                  wrapper_type |-> Node.type,
                                  classes |-> <<>>])

C6_Witness ==
    /\ Called("get_inner_type")
    /\ Node = ResolvedType(ContainerType.MODEL, "string")
    /\ result.exc = "none"
    /\ result.value.wrapper_type = "string"
    /\ ~result.value.primitive

(***************************************************************************)
(* C7.  As claimed: on every tree get_inner_type accepts, the container    *)
(* chain lists the container classes outermost first and its length is the *)
(* number of LIST, SET and DICT nodes in the tree.                         *)
(***************************************************************************)
C7_ClassName(tag) ==
    CASE tag = ContainerType.DICT -> "Map"
      [] tag = ContainerType.LIST -> "Array"
      [] tag = ContainerType.SET -> "Set"

\* The number of nodes above the outermost PRIMITIVE, MODEL or MULTIPLE node.
C7_Enclosing(t) ==
    LET E == {n \in 1..Len(Spine(t)) :
                 Spine(t)[n] \in LeafTags \cup {ContainerType.MULTIPLE}}
    IN  (CHOOSE n \in E : \A m \in E : n <= m) - 1

C7_ChainOutermostFirst(t, classes) ==
    /\ Len(classes) = C7_Enclosing(t)
    /\ \A i \in 1..Len(classes) : classes[i] = C7_ClassName(Spine(t)[i])

C7_ChainCountsAllContainers ==
    (Called("get_inner_type") /\ result.exc = "none")
    => /\ C7_ChainOutermostFirst(Node, result.value.classes)
       /\ Len(result.value.classes)
              = Cardinality({n \in 1..Len(Spine(Node)) :
                                Spine(Node)[n] \in WrappingTags})

(***************************************************************************)
(* C7, amended.  On every tree get_inner_type accepts, the container chain *)
(* lists the container classes outermost first (DICT gives "Map", LIST     *)
(* "Array", SET "Set") and its length is the number of LIST, SET and DICT  *)
(* nodes that enclose the outermost PRIMITIVE, MODEL or MULTIPLE node: the *)
(* containers inside the payload of a MULTIPLE node are not counted.       *)
(***************************************************************************)
C7_ChainCountsEnclosingContainers ==
    (Called("get_inner_type") /\ result.exc = "none")
    => /\ C7_ChainOutermostFirst(Node, result.value.classes)
       /\ \A i \in 1..C7_Enclosing(Node) : Spine(Node)[i] \in WrappingTags

C7_Witness ==
    /\ Called("get_inner_type")
    /\ Node = ResolvedType(ContainerType.LIST,
                  ResolvedType(ContainerType.DICT,
                      ResolvedType(ContainerType.SET,
                          ResolvedType(ContainerType.MODEL, "Foo"))))
    /\ result.exc = "none"
    /\ result.value.classes = <<"Array", "Map", "Set">>

(***************************************************************************)
(* C8.  safe_reserved returns a token that is not in LANGUAGE_KEYWORDS     *)
(* unchanged and a token that is in it with "_" appended; for a reserved   *)
(* word the result differs from the word and is not itself reserved, so    *)
(* the result is never a reserved word.                                    *)
(***************************************************************************)
C8_NeverReserved ==
    (call = "safe_reserved" /\ arg.kind = "token")
    => /\ arg.value \notin LANGUAGE_KEYWORDS => result = Return(arg.value)
       /\ arg.value \in LANGUAGE_KEYWORDS
              => /\ result = Return(arg.value \o "_")
                 /\ result.value # arg.value
                 /\ Len(result.value) = Len(arg.value) + 1
       /\ result.value \notin LANGUAGE_KEYWORDS

C8_Witness ==
    /\ call = "safe_reserved"
    /\ arg.kind = "token"
    /\ arg.value = "interface"
    /\ result = Return("interface_")

(***************************************************************************)
(* C9.  safe_reserved is idempotent: applied to its own result it returns  *)
(* that result, for a token that is not reserved and for a reserved word.  *)
(***************************************************************************)
C9_Idempotent ==
    (call = "safe_reserved" /\ arg.kind = "token")
    => safe_reserved(result.value) = result.value

C9_Witness ==
    /\ call = "safe_reserved"
    /\ arg.kind = "token"
    /\ arg.value \in LANGUAGE_KEYWORDS
    /\ result.value # arg.value
    /\ safe_reserved(result.value) = result.value

(***************************************************************************)
(* C10.  As claimed: on LIST(DICT(PRIMITIVE(integer))) translate_type      *)
(* yields "Array<Map<string, number>>" and contains_model yields false.    *)
(***************************************************************************)
C10_Input ==
    ResolvedType(ContainerType.LIST,
        ResolvedType(ContainerType.DICT,
            ResolvedType(ContainerType.PRIMITIVE, "integer")))

C10_IntegerAsNumber ==
    (arg.kind = "ResolvedType" /\ Node = C10_Input)
    => /\ call = "translate_type"
              => result = Return("Array<Map<string, number>>")
       /\ call = "contains_model" => result = Return(FALSE)

(***************************************************************************)
(* C10, amended.  On LIST(DICT(PRIMITIVE(integer))) translate_type yields  *)
(* "Array<Map<string, integer>>" (the table maps integer to "integer") and *)
(* contains_model yields false.                                            *)
(***************************************************************************)
C10_IntegerAsInteger ==
    (arg.kind = "ResolvedType" /\ Node = C10_Input)
    => /\ call = "translate_type"
              => result = Return("Array<Map<string, integer>>")
       /\ call = "contains_model" => result = Return(FALSE)

C10_Witness ==
    /\ Called("translate_type")
    /\ Node = C10_Input
    /\ result = Return("Array<Map<string, integer>>")

(***************************************************************************)
(* C11.  A PRIMITIVE node whose tag is not in the primitive table makes    *)
(* translate_type and get_inner_type fail with the unknown-primitive error *)
(* (KeyError of the tag); under any number of LIST, SET and DICT layers    *)
(* the same error leaves the top-level call unmodified, and no type        *)
(* expression and no InnerType is returned.                                *)
(***************************************************************************)
C11_UnknownPrimitiveUnderContainers(t) ==
    /\ Spine(t)[Len(Spine(t))] = ContainerType.PRIMITIVE
    /\ LeafPayload(t) \notin {"string", "integer", "boolean", "number", UNDEFINED}
    /\ \A i \in 1..(Len(Spine(t)) - 1) : Spine(t)[i] \in WrappingTags

C11_UnknownPrimitivePropagates ==
    (/\ arg.kind = "ResolvedType"
     /\ call \in {"translate_type", "get_inner_type"}
     /\ C11_UnknownPrimitiveUnderContainers(Node))
    => result = Raise("KeyError", LeafPayload(Node))

C11_Witness ==
    /\ Called("get_inner_type")
    /\ Node = ResolvedType(ContainerType.LIST,
                  ResolvedType(ContainerType.DICT,
                      ResolvedType(ContainerType.SET,
                          ResolvedType(ContainerType.PRIMITIVE, "bogus"))))
    /\ result = Raise("KeyError", "bogus")

(***************************************************************************)
(* C12.  Under every interleaving of the calls of concurrent threads, and  *)
(* after any sequence of earlier calls (failed ones included), a call of   *)
(* translate_type, get_inner_type, contains_model or safe_reserved returns *)
(* or raises exactly what the same call does when it runs alone on the     *)
(* same argument: the calls share no state they write, and each            *)
(* get_inner_type call builds its own container chain.                     *)
(***************************************************************************)
C12_Alone(f, a) ==
    CASE f = "translate_type" -> translate_type(a)
      [] f = "get_inner_type" -> get_inner_type(a)
      [] f = "contains_model" -> contains_model(a)
      [] f = "safe_reserved" -> Return(safe_reserved(a))

C12_ResultAsAlone ==
    \A t \in Threads :
        threads[t].pc = "done"
        => threads[t].result = C12_Alone(threads[t].call, threads[t].arg.value)

C12_Witness ==
    /\ threads[1].pc = "done"
    /\ threads[1].call = "get_inner_type"
    /\ threads[1].result.exc = "none"
    /\ threads[1].result.value.classes = <<"Array", "Map">>
    /\ threads[2].pc = "resolve_type"
    /\ threads[2].arg.value
           = ResolvedType(ContainerType.DICT,
                 ResolvedType("foo", ResolvedType(ContainerType.MODEL, "Foo")))
    /\ threads[2].resolved_type.container = "foo"
    /\ instances[2].classes = <<"Map">>

(***************************************************************************)
(* C13.  After _init_settings, for every combination of incoming           *)
(* use_docker and no_docker settings and every answer to the prompt,       *)
(* exactly one of use_docker and no_docker is true in project.settings:    *)
(* use_docker = True wins when both were True, no_docker = True alone      *)
(* gives use_docker false, and when neither is True the answer decides     *)
(* (use_docker is false exactly for "n" and "no" in any letter case) with  *)
(* no_docker = not use_docker; protocolVersion is "2.0.0".                 *)
(***************************************************************************)
C13_AnswerIsNo(answer) ==
    answer \in {<<"n">>, <<"N">>, <<"n", "o">>, <<"N", "o">>,
                <<"n", "O">>, <<"N", "O">>}

C13_IsTrue(settings, key) ==
    key \in DOMAIN settings /\ settings[key]

C13_ExactlyOneDockerSetting ==
    (call = "_init_settings" /\ arg.kind = "settings")
    => LET in == arg.value.settings
           out == result.value
       IN  /\ {"use_docker", "no_docker", "protocolVersion"} \subseteq DOMAIN out
           /\ out["use_docker"] \in BOOLEAN
           /\ out["no_docker"] = ~out["use_docker"]
           /\ C13_IsTrue(in, "use_docker") => out["use_docker"]
           /\ (~C13_IsTrue(in, "use_docker") /\ C13_IsTrue(in, "no_docker"))
                  => out["no_docker"]
           /\ (~C13_IsTrue(in, "use_docker") /\ ~C13_IsTrue(in, "no_docker"))
                  => out["use_docker"] = ~C13_AnswerIsNo(arg.value.answer)
           /\ out["protocolVersion"] = "2.0.0"

C13_Witness ==
    /\ call = "_init_settings"
    /\ arg.kind = "settings"
    /\ DOMAIN arg.value.settings = {"use_docker", "no_docker"}
    /\ arg.value.settings["use_docker"]
    /\ arg.value.settings["no_docker"]
    /\ result.value["use_docker"]
    /\ ~result.value["no_docker"]

(***************************************************************************)
(* C14.  translate_type and get_inner_type agree on nesting depth and      *)
(* order: on every tree on which both succeed, wrapping the scalar type of *)
(* get_inner_type in its container chain, innermost class first            *)
(* ("Array<..>", "Set<..>", "Map<string, ..>"), gives exactly the string   *)
(* translate_type returns.                                                 *)
(***************************************************************************)
C14_Wrap(class, inner) ==
    CASE class = "Array" -> "Array<" \o inner \o ">"
      [] class = "Set" -> "Set<" \o inner \o ">"
      [] class = "Map" -> "Map<string, " \o inner \o ">"

RECURSIVE C14_Rebuild(_, _)
C14_Rebuild(scalar, classes) ==
    IF classes = <<>>
    THEN scalar
    ELSE C14_Wrap(Head(classes), C14_Rebuild(scalar, Tail(classes)))

C14_ViewsAgree ==
    (/\ Called("get_inner_type")
     /\ result.exc = "none"
     /\ translate_type(Node).exc = "none")
    => C14_Rebuild(result.value.type, result.value.classes)
           = translate_type(Node).value

C14_Witness ==
    /\ Called("get_inner_type")
    /\ Node = ResolvedType(ContainerType.SET,
                  ResolvedType(ContainerType.DICT,
                      ResolvedType(ContainerType.MULTIPLE,
                          ResolvedType(ContainerType.MODEL, "Foo"))))
    /\ result.exc = "none"
    /\ C14_Rebuild(result.value.type, result.value.classes)
           = "Set<Map<string, object>>"
    /\ translate_type(Node) = Return("Set<Map<string, object>>")

(***************************************************************************)
(* C15.  Whenever get_inner_type resolves a primitive scalar (a PRIMITIVE  *)
(* leaf with a tag of the primitive table, or a MULTIPLE node), the lookup *)
(* of the wrapper by the translated name succeeds: every value of          *)
(* PRIMITIVE_TYPES and "object" are keys of PRIMITIVE_WRAPPERS, and        *)
(* wrapper_type is one of "String", "Integer", "Boolean", "Number",        *)
(* "Object" and differs from the scalar type.  For a MODEL leaf            *)
(* wrapper_type is the scalar type.                                        *)
(***************************************************************************)
\* The node at which resolve_type stops going through LIST, SET and DICT.
RECURSIVE C15_Scalar(_)
C15_Scalar(t) ==
    IF t.container \in WrappingTags THEN C15_Scalar(t.type) ELSE t

C15_PrimitiveScalar(t) ==
    \/ C15_Scalar(t).container = ContainerType.MULTIPLE
    \/ /\ C15_Scalar(t).container = ContainerType.PRIMITIVE
       /\ C15_Scalar(t).type \in DOMAIN PRIMITIVE_TYPES

C15_WrapperLookupSucceeds ==
    /\ \A k \in DOMAIN PRIMITIVE_TYPES :
           PRIMITIVE_TYPES[k] \in DOMAIN PRIMITIVE_WRAPPERS
    /\ "object" \in DOMAIN PRIMITIVE_WRAPPERS
    /\ (Called("get_inner_type") /\ C15_PrimitiveScalar(Node))
           => /\ result.exc = "none"
              /\ result.value.primitive
              /\ result.value.wrapper_type
                     \in {"String", "Integer", "Boolean", "Number", "Object"}
              /\ result.value.wrapper_type # result.value.type
    /\ (/\ Called("get_inner_type")
        /\ C15_Scalar(Node).container = ContainerType.MODEL)
           => /\ result.exc = "none"
              /\ ~result.value.primitive
              /\ result.value.wrapper_type = result.value.type
              /\ result.value.type = C15_Scalar(Node).type

C15_Witness ==
    /\ Called("get_inner_type")
    /\ Node = ResolvedType(ContainerType.LIST,
                  ResolvedType(ContainerType.PRIMITIVE, UNDEFINED))
    /\ result.exc = "none"
    /\ result.value.type = "object"
    /\ result.value.wrapper_type = "Object"

(***************************************************************************)
(* C16.  The validator of validate_codegen_model(default) returns default  *)
(* for the empty value, returns the value unchanged when it is exactly "1" *)
(* or exactly "2", and raises WizardValidationError("Invalid selection.")  *)
(* for every other value, a valid digit followed by a newline included.    *)
(***************************************************************************)
C16_OnlyOneOrTwoAccepted ==
    (call = "validate_codegen_model" /\ arg.kind = "selection")
    => /\ arg.value = <<>> => result = Return(DEFAULT)
       /\ arg.value \in {<<"1">>, <<"2">>} => result = Return(arg.value)
       /\ arg.value \notin {<<>>, <<"1">>, <<"2">>}
              => result = Raise("WizardValidationError", "Invalid selection.")

(***************************************************************************)
(* C17.  translate_type and get_inner_type fail on the same trees and      *)
(* report the same kind of defect: on every tree both succeed, or both     *)
(* fail with the unknown-container error, or both fail with the            *)
(* unknown-primitive error; when an unknown container tag encloses a       *)
(* PRIMITIVE with an unknown tag, both report the unknown container.       *)
(***************************************************************************)
C17_SameOutcomeKind ==
    /\ Called("translate_type")
           => result.exc = get_inner_type(Node).exc
    /\ Called("get_inner_type")
           => result.exc = translate_type(Node).exc
    /\ (/\ arg.kind = "ResolvedType"
        /\ call \in {"translate_type", "get_inner_type"}
        /\ Node.container \in UnknownContainers
        /\ Node.type.container = ContainerType.PRIMITIVE
        /\ Node.type.type \notin DOMAIN PRIMITIVE_TYPES)
           => result.exc = "ValueError"

(***************************************************************************)
(* C18.  safe_reserved is collision-safe: two distinct identifiers never   *)
(* sanitize to the same identifier, a reserved word k and the name k + "_" *)
(* included.                                                               *)
(***************************************************************************)
C18_NoCollision ==
    (call = "safe_reserved" /\ arg.kind = "token")
    => \A y \in Tokens :
           y # arg.value => safe_reserved(y) # result.value

====
